---- MODULE Spec2Model ----
(***************************************************************************)
(* Speech queue (app/queue_manager.py), interruptible audio player         *)
(* (app/player.py) and text preprocessing (app/text_cleaner.py) of         *)
(* voicevox_reader, as a state machine.                                    *)
(*                                                                         *)
(* A text is a sequence of characters, each character a one-element token: *)
(* "\\" is the backslash, "yen", "fwyen" and "fwbs" stand for the yen      *)
(* sign, the full-width yen sign and the full-width backslash, "fwcolon"   *)
(* for the full-width colon.                                               *)
(***************************************************************************)
EXTENDS Integers, Sequences, FiniteSets, TLC

(***************************************************************************)
(* Bounds of the model.                                                    *)
(***************************************************************************)
MaxTextLen == 2

MaxQueueSize == 2

MaxItems == 3

MaxToken == 3

MaxFrames == 2

\* AudioPlayer(blocksize=256), scaled down to two frames per callback period
BlockSize == 2

(***************************************************************************)
(* Text preprocessing: app/text_cleaner.py                                 *)
(***************************************************************************)
Whitespace == {" ", "\t", "\n", "\r"}

Digits == {"0", "1", "2", "3", "4", "5", "6", "7", "8", "9"}

BackslashLike == {"\\", "yen", "fwyen", "fwbs"}

\* character classes of _CONTROL_CODE_PATTERNS, in list order; the patterns
\* are compiled with re.IGNORECASE, so a letter matches in both cases
_CONTROL_CODE_PATTERNS ==
    << [kind |-> "indexed", chars |-> {"C", "c"}],
       [kind |-> "indexed", chars |-> {"V", "v"}],
       [kind |-> "indexed", chars |-> {"N", "n"}],
       [kind |-> "indexed", chars |-> {"P", "p"}],
       [kind |-> "indexed", chars |-> {"I", "i"}],
       [kind |-> "plain", chars |-> {"G", "g"}],
       [kind |-> "plain", chars |-> {"."}],
       [kind |-> "plain", chars |-> {"|"}],
       [kind |-> "plain", chars |-> {"!"}],
       [kind |-> "plain", chars |-> {">"}],
       [kind |-> "plain", chars |-> {"<"}],
       [kind |-> "plain", chars |-> {"^"}],
       [kind |-> "plain", chars |-> {"$"}] >>

_TEXTSIZE == [kind |-> "plain", chars |-> {"{", "}"}]

\* number of digits of s starting at position i (the greedy match of \d+)
RECURSIVE DigitRun(_, _)
DigitRun(s, i) ==
    IF i <= Len(s) /\ s[i] \in Digits THEN 1 + DigitRun(s, i + 1) ELSE 0

\* length of the match of `[\d+]` at position i of s, 0 when there is none
BracketLen(s, i) ==
    IF i <= Len(s) /\ s[i] = "["
    THEN LET d == DigitRun(s, i + 1)
         IN  IF d > 0 /\ i + 1 + d <= Len(s) /\ s[i + 1 + d] = "]"
             THEN d + 2
             ELSE 0
    ELSE 0

\* length of the match of pattern pat at position i of s, 0 when there is none
MatchLen(pat, s, i) ==
    CASE pat.kind = "plain" ->
           IF i + 1 <= Len(s) /\ s[i] \in BackslashLike /\ s[i + 1] \in pat.chars
           THEN 2 ELSE 0
      [] pat.kind = "indexed" ->
           IF i + 1 <= Len(s) /\ s[i] \in BackslashLike /\ s[i + 1] \in pat.chars
              /\ BracketLen(s, i + 2) > 0
           THEN 2 + BracketLen(s, i + 2) ELSE 0
      [] pat.kind = "nl2" ->
           IF i + 2 <= Len(s) /\ s[i] = "\\" /\ s[i + 1] = "\\" /\ s[i + 2] \in {"n", "N"}
           THEN 3 ELSE 0
      [] pat.kind = "nl1" ->
           IF i + 1 <= Len(s) /\ s[i] = "\\" /\ s[i + 1] \in {"n", "N"}
           THEN 2 ELSE 0
      [] pat.kind = "crlf" ->
           IF i + 1 <= Len(s) /\ s[i] = "\r" /\ s[i + 1] = "\n" THEN 2 ELSE 0
      [] pat.kind = "cr" ->
           IF i <= Len(s) /\ s[i] = "\r" THEN 1 ELSE 0
      [] pat.kind = "idx" ->
           LET b == BracketLen(s, i)
           IN  IF b > 0 /\ i + b <= Len(s) /\ s[i + b] \in {":", "fwcolon"}
               THEN b ELSE 0

\* re.sub(pat, rep, s) from position i on: leftmost non-overlapping matches
RECURSIVE SubFrom(_, _, _, _)
SubFrom(pat, rep, s, i) ==
    IF i > Len(s) THEN << >>
    ELSE LET m == MatchLen(pat, s, i)
         IN  IF m > 0
             THEN rep \o SubFrom(pat, rep, s, i + m)
             ELSE << s[i] >> \o SubFrom(pat, rep, s, i + 1)

Sub(pat, rep, s) == SubFrom(pat, rep, s, 1)

\* _SPACES.sub(" ", ln): every maximal run of blanks and tabs becomes one blank
RECURSIVE CollapseSpaces(_, _)
CollapseSpaces(s, i) ==
    IF i > Len(s) THEN << >>
    ELSE IF s[i] \in {" ", "\t"}
         THEN IF i > 1 /\ s[i - 1] \in {" ", "\t"}
              THEN CollapseSpaces(s, i + 1)
              ELSE << " " >> \o CollapseSpaces(s, i + 1)
         ELSE << s[i] >> \o CollapseSpaces(s, i + 1)

RECURSIVE LStrip(_)
LStrip(s) ==
    IF s # << >> /\ Head(s) \in Whitespace THEN LStrip(Tail(s)) ELSE s

RECURSIVE RStrip(_)
RStrip(s) ==
    IF s # << >> /\ s[Len(s)] \in Whitespace
    THEN RStrip(SubSeq(s, 1, Len(s) - 1))
    ELSE s

\* str.strip()
Strip(s) == RStrip(LStrip(s))

_normalize_backslash_variants(text) ==
    [i \in 1..Len(text) |-> IF text[i] \in BackslashLike THEN "\\" ELSE text[i]]

_convert_literal_newlines(text) ==
    Sub([kind |-> "nl1"], << "\n" >>, Sub([kind |-> "nl2"], << "\n" >>, text))

\* text.split("\n"): the lines of s, at least one
RECURSIVE SplitLines(_)
SplitLines(s) ==
    IF \E i \in 1..Len(s) : s[i] = "\n"
    THEN LET k == CHOOSE i \in 1..Len(s) :
                     s[i] = "\n" /\ \A j \in 1..(i - 1) : s[j] # "\n"
         IN  << SubSeq(s, 1, k - 1) >> \o SplitLines(SubSeq(s, k + 1, Len(s)))
    ELSE << s >>

\* "\n".join(lines)
RECURSIVE JoinLines(_)
JoinLines(lines) ==
    IF lines = << >> THEN << >>
    ELSE IF Len(lines) = 1 THEN lines[1]
    ELSE lines[1] \o << "\n" >> \o JoinLines(Tail(lines))

RECURSIVE DropLeadingEmpty(_)
DropLeadingEmpty(lines) ==
    IF lines # << >> /\ Head(lines) = << >>
    THEN DropLeadingEmpty(Tail(lines))
    ELSE lines

RECURSIVE DropTrailingEmpty(_)
DropTrailingEmpty(lines) ==
    IF lines # << >> /\ lines[Len(lines)] = << >>
    THEN DropTrailingEmpty(SubSeq(lines, 1, Len(lines) - 1))
    ELSE lines

\* the patterns of _CONTROL_CODE_PATTERNS removed one after the other
RECURSIVE RemoveCodes(_, _)
RemoveCodes(s, k) ==
    IF k > Len(_CONTROL_CODE_PATTERNS) THEN s
    ELSE RemoveCodes(Sub(_CONTROL_CODE_PATTERNS[k], << >>, s), k + 1)

StripLines(lines) == [i \in 1..Len(lines) |-> Strip(lines[i])]

\* lines 55-72: the substitutions, in the order the code applies them
StripCodes(text) ==
    Sub([kind |-> "idx"], << >>,
        RemoveCodes(
            Sub(_TEXTSIZE, << >>,
                _convert_literal_newlines(
                    _normalize_backslash_variants(
                        Sub([kind |-> "cr"], << "\n" >>,
                            Sub([kind |-> "crlf"], << "\n" >>, text))))), 1))

clean_control_codes(text) ==
    IF text = << >> THEN << >>
    ELSE JoinLines(DropTrailingEmpty(DropLeadingEmpty(StripLines(SplitLines(StripCodes(text))))))

CollapseLines(lines) ==
    [i \in 1..Len(lines) |-> Strip(CollapseSpaces(lines[i], 1))]

preprocess(text) ==
    Strip(JoinLines(CollapseLines(SplitLines(clean_control_codes(text)))))

(***************************************************************************)
(* Values.  None and an absent Optional are the empty tuple, a dict is the *)
(* sequence of its <<key, value>> pairs in insertion order, a float is     *)
(* counted in tenths.                                                      *)
(***************************************************************************)
None == << >>

\* the keys of the voice parameters, in the order sorted() gives them
ParamKeys == << "intonationScale", "pitchScale", "speedScale", "volumeScale" >>

DictKeys(d) == {d[i][1] : i \in 1..Len(d)}

DictGet(d, k) == d[CHOOSE i \in 1..Len(d) : d[i][1] = k][2]

\* dict.update(upd): a known key keeps its place, a new key is appended
RECURSIVE DictUpdate(_, _)
DictUpdate(d, upd) ==
    IF upd = << >> THEN d
    ELSE LET k == upd[1][1]
             v == upd[1][2]
             d1 == IF k \in DictKeys(d)
                   THEN [i \in 1..Len(d) |-> IF d[i][1] = k THEN << k, v >> ELSE d[i]]
                   ELSE Append(d, << k, v >>)
         IN  DictUpdate(d1, Tail(upd))

\* tuple(sorted(d.items()))
RECURSIVE SortedFrom(_, _)
SortedFrom(d, r) ==
    IF r > Len(ParamKeys) THEN << >>
    ELSE IF ParamKeys[r] \in DictKeys(d)
         THEN << << ParamKeys[r], DictGet(d, ParamKeys[r]) >> >> \o SortedFrom(d, r + 1)
         ELSE SortedFrom(d, r + 1)

\* a faulty key for C26: the entries in their order of insertion
UnsortedItems(d) == d

SortedItems(d) == SortedFrom(d, 1)

(***************************************************************************)
(* Inputs                                                                  *)
(***************************************************************************)
Alphabet == {"a", " ", "\\", "n", "."}

RECURSIVE TextsOfLen(_)
TextsOfLen(n) ==
    IF n = 0 THEN {<< >>}
    ELSE {Append(t, c) : t \in TextsOfLen(n - 1), c \in Alphabet}

\* every text over Alphabet up to MaxTextLen, and three texts with control codes
Texts ==
    UNION {TextsOfLen(n) : n \in 0..MaxTextLen}
    \cup {<< "\\", "C", "[", "2", "]" >>,
          << "yen", "N", "[", "1", "]", "fwcolon", "a" >>,
          << " ", "\r", "\n", "\\", "G", "\t" >>}

\* the texts of the running system
SpeakTexts == {<< "a" >>, << "b" >>, << " " >>}

Args(texts, names, styles, params, flags) ==
    [text : texts, name : names, style_id : styles, voice_params : params,
     no_dedup : flags]

\* what the producers of the running system say
SpeakArgs ==
    Args({<< "a" >>}, {"default"}, {None}, {None}, BOOLEAN)
    \cup Args({<< " " >>}, {"default"}, {None}, {None}, {FALSE})

\* what the second producer says while the system runs
OtherArgs == Args({<< "b" >>}, {"default"}, {None}, {None}, {FALSE})

\* what the producers say while the worker is not started
FillArgs ==
    Args({<< "a" >>, << " ", "b" >>}, {"default", "lily"}, {None, << 3 >>},
         {None, << << "speedScale", 12 >> >>}, BOOLEAN)

\* what the producers say in the runs without failure and without interrupt
LiveArgs ==
    Args({<< "a" >>}, {"default"}, {None, << 3 >>},
         {None, << << "speedScale", 12 >> >>}, {FALSE})

\* one call with any text
TextArgs == Args(Texts, {"default"}, {None}, {None}, {FALSE})

\* what the synthesis service returns: VOICEVOX audio is 24 kHz mono
Wavs == [frames : 1..MaxFrames, samplerate : {24000}, channels : {1}]

\* audio handed to the player by its clients: two sample rates, and buffers
\* of up to a period and a half
EngineWavs ==
    [frames : 1..MaxFrames + 1, samplerate : {24000, 48000}, channels : {1}]

\* preprocess over the texts the producers say, evaluated once
Preprocessed == [t \in Texts \cup SpeakTexts \cup {<< " ", "b" >>} |-> preprocess(t)]

(***************************************************************************)
(* Character profiles: app/config.py                                       *)
(***************************************************************************)
\* the minimal default that CharacterConfig.load creates
CharacterData ==
    [default |->
        [style_id |-> 2,
         voice_params |-> << << "speedScale", 10 >>, << "pitchScale", 0 >>,
                             << "intonationScale", 10 >>, << "volumeScale", 10 >> >>]]

\* CharacterConfig.resolve: a name without an entry of its own gets the default
resolve(name) ==
    IF name \in DOMAIN CharacterData
    THEN CharacterData[name]
    ELSE CharacterData["default"]

(***************************************************************************)
(* State                                                                   *)
(***************************************************************************)
Producers == {"p1", "p2"}

VARIABLES
    q,                \* SpeechQueueManager.q, the pending SpeakItems, oldest first
    started,          \* SpeechQueueManager._started
    dedup_enabled,    \* SpeechQueueManager.dedup_enabled
    stop_flag,        \* SpeechQueueManager._stop_flag
    last_spoken_key,  \* SpeechQueueManager._last_spoken_key
    wpc,              \* where the worker thread is in _worker_loop
    witem,            \* the worker's local item: the item dequeued last
    wwav,             \* the worker's local wav_bytes
    token,            \* AudioPlayer._token
    active,           \* AudioPlayer._active
    data,             \* AudioPlayer._data
    pos,              \* AudioPlayer._pos
    finished,         \* AudioPlayer._finished_event
    samplerate,       \* AudioPlayer._samplerate
    channels,         \* AudioPlayer._channels
    stream,           \* AudioPlayer._stream
    cpc,              \* where the audio callback is
    snap,             \* the callback's snapshot: token, active, data, pos
    out,              \* outdata of the latest callback invocation
    ppc,              \* where each producer thread is
    pop,              \* the call each producer thread is in
    ret,              \* the call that returned in the latest step, and its result
    nextId,           \* history: identity of the next SpeakItem constructed
    played,           \* history: the item whose audio was passed to play last, and
                      \* how that playback went
    imark,            \* history: the latest enqueue_interrupt begun while the worker
                      \* waited for a playback: its caller, the item in playback,
                      \* nextId at that time, and whether it has returned true
    results           \* history: results of the enqueue calls with a text to speak

mgrVars == << q, started, dedup_enabled, stop_flag, last_spoken_key >>
workerVars == << wpc, witem, wwav >>
playerVars == << token, active, data, pos, finished, samplerate, channels, stream >>
cbVars == << cpc, snap, out >>
prodVars == << ppc, pop >>
histVars == << nextId, played, imark, results >>

vars == << q, started, dedup_enabled, stop_flag, last_spoken_key, wpc, witem, wwav,
           token, active, data, pos, finished, samplerate, channels, stream,
           cpc, snap, out, ppc, pop, ret, nextId, played, imark, results >>

NoItem == [id |-> 0, name |-> "", text |-> << >>, style_id |-> 0,
           voice_params |-> << >>, no_dedup |-> FALSE]

NoWav == [frames |-> 0, samplerate |-> 0, channels |-> 0]

NoData == [buf |-> 0, frames |-> 0]

NoStream == [open |-> FALSE, running |-> FALSE, samplerate |-> 0, channels |-> 0]

Silence == [buf |-> 0, idx |-> 0]

NoRet == [by |-> "none", op |-> "none", ok |-> FALSE]

NoMark == [by |-> "none", cur |-> 0, id |-> 0, ok |-> FALSE]

NoSnap == [token |-> 0, active |-> FALSE, data |-> NoData, pos |-> 0]

\* the step is no return of a producer's call
NoReturn == ret' = NoRet

Returns(p, op, ok) == ret' = [by |-> p, op |-> op, ok |-> ok]

(***************************************************************************)
(* SpeakItem and the queue: app/queue_manager.py                           *)
(***************************************************************************)
dedup_key(item) == << item.text, item.style_id, SortedItems(item.voice_params) >>

\* the SpeakItem that enqueue builds from its arguments, lines 79-98
MakeItem(a, id) ==
    LET r == resolve(a.name)
    IN  [id |-> id,
         name |-> a.name,
         text |-> Preprocessed[a.text],
         style_id |-> IF a.style_id # None THEN a.style_id[1] ELSE r.style_id,
         voice_params |-> DictUpdate(r.voice_params, a.voice_params),
         no_dedup |-> a.no_dedup]

\* a faulty rejection test for C1: only the empty text is turned away
RejectedOnlyEmpty(text) == text = << >>

\* lines 76-81: the text is empty, blank, or empty once preprocessed
Rejected(text) ==
    \/ text = << >>
    \/ Strip(text) = << >>
    \/ Preprocessed[text] = << >>

\* a faulty put for C2: the queue takes one item more than maxsize
PutNowaitOneMore(queue, item) ==
    IF Len(queue) > MaxQueueSize
    THEN [ok |-> FALSE, q |-> queue]
    ELSE [ok |-> TRUE, q |-> Append(queue, item)]

\* a faulty put for C3: an unbounded queue
PutNowaitUnbounded(queue, item) == [ok |-> TRUE, q |-> Append(queue, item)]

\* queue.Queue.put_nowait: queue.Full when the queue holds maxsize items
PutNowait(queue, item) ==
    IF Len(queue) >= MaxQueueSize
    THEN [ok |-> FALSE, q |-> queue]
    ELSE [ok |-> TRUE, q |-> Append(queue, item)]

\* enqueue, lines 68-104, called by producer p as call op
EnqueueBody(p, a, op) ==
    IF Rejected(a.text)
    THEN /\ Returns(p, op, FALSE)
         /\ UNCHANGED << q, nextId >>
    ELSE LET put == PutNowait(q, MakeItem(a, nextId))
         IN  /\ put.ok => nextId <= MaxItems
             /\ q' = put.q
             /\ nextId' = IF put.ok THEN nextId + 1 ELSE nextId
             /\ Returns(p, op, put.ok)

(***************************************************************************)
(* The state after SpeechQueueManager.__init__ and AudioPlayer.__init__    *)
(***************************************************************************)
InitRest ==
    /\ started = FALSE
    /\ dedup_enabled = TRUE
    /\ stop_flag = FALSE
    /\ last_spoken_key = None
    /\ wpc = "get"
    /\ witem = NoItem
    /\ wwav = NoWav
    /\ token = 0
    /\ active = FALSE
    /\ data = NoData
    /\ pos = 0
    /\ finished = TRUE
    /\ samplerate = 48000
    /\ channels = 1
    /\ stream = NoStream
    /\ cpc = "idle"
    /\ snap = NoSnap
    /\ out = << >>
    /\ ppc = [p \in Producers |-> "idle"]
    /\ pop = [p \in Producers |-> "none"]
    /\ ret = NoRet
    /\ played = [id |-> 0, how |-> "none"]
    /\ imark = NoMark
    /\ results = << >>

Init ==
    /\ q = << >>
    /\ nextId = 1
    /\ InitRest

\* voice_params mappings of SpeakItem: the same entries inserted in two
\* orders, another value, another set of keys
KeyParams ==
    { << << "speedScale", 10 >>, << "pitchScale", 0 >> >>,
      << << "pitchScale", 0 >>, << "speedScale", 10 >> >>,
      << << "speedScale", 12 >>, << "pitchScale", 0 >> >>,
      << << "speedScale", 10 >> >> }

\* SpeakItem, lines 15-21
KeyItems ==
    [id : {0}, name : {"default", "lily"}, text : {<< "a" >>, << "b" >>},
     style_id : {2, 3}, voice_params : KeyParams, no_dedup : BOOLEAN]

\* two SpeakItems wait in the queue
InitKey ==
    /\ \E x \in KeyItems, y \in KeyItems :
          q = << [x EXCEPT !.id = 1], [y EXCEPT !.id = 2] >>
    /\ nextId = 3
    /\ InitRest

\* the state after SpeechQueueManager(dedup_enabled=False)
InitNoDedup ==
    /\ q = << >>
    /\ nextId = 1
    /\ started = FALSE
    /\ dedup_enabled = FALSE
    /\ stop_flag = FALSE
    /\ last_spoken_key = None
    /\ wpc = "get"
    /\ witem = NoItem
    /\ wwav = NoWav
    /\ token = 0
    /\ active = FALSE
    /\ data = NoData
    /\ pos = 0
    /\ finished = TRUE
    /\ samplerate = 48000
    /\ channels = 1
    /\ stream = NoStream
    /\ cpc = "idle"
    /\ snap = NoSnap
    /\ out = << >>
    /\ ppc = [p \in Producers |-> "idle"]
    /\ pop = [p \in Producers |-> "none"]
    /\ ret = NoRet
    /\ played = [id |-> 0, how |-> "none"]
    /\ imark = NoMark
    /\ results = << >>

(***************************************************************************)
(* AudioPlayer: app/player.py                                              *)
(***************************************************************************)
\* a faulty play for C11: a buffer still in playback is not replaced
PlayInstallKeepsBuffer(wav, id) ==
    /\ token < MaxToken
    /\ token' = token + 1
    /\ data' = IF active THEN data ELSE [buf |-> token + 1, frames |-> wav.frames]
    /\ samplerate' = wav.samplerate
    /\ channels' = wav.channels
    /\ pos' = 0
    /\ active' = TRUE
    /\ finished' = FALSE
    /\ played' = [id |-> id, how |-> "playing"]
    /\ UNCHANGED stream

\* a faulty play for C20: the position is not reset
PlayInstallKeepsPos(wav, id) ==
    /\ token < MaxToken
    /\ token' = token + 1
    /\ data' = [buf |-> token + 1, frames |-> wav.frames]
    /\ samplerate' = wav.samplerate
    /\ channels' = wav.channels
    /\ active' = TRUE
    /\ finished' = FALSE
    /\ played' = [id |-> id, how |-> "playing"]
    /\ UNCHANGED << pos, stream >>

\* play, lines 135-143: the new state installed under the lock, for item id
PlayInstall(wav, id) ==
    /\ token < MaxToken
    /\ token' = token + 1
    /\ data' = [buf |-> token + 1, frames |-> wav.frames]
    /\ samplerate' = wav.samplerate
    /\ channels' = wav.channels
    /\ pos' = 0
    /\ active' = TRUE
    /\ finished' = FALSE
    /\ played' = [id |-> id, how |-> "playing"]
    /\ UNCHANGED stream

\* a faulty stop for C9: the token is minted, the buffer stays
StopKeepsBuffer ==
    /\ token < MaxToken
    /\ token' = token + 1
    /\ UNCHANGED << active, data, pos, finished, played, samplerate, channels, stream >>

\* a faulty stop for C10: the playback is dropped, no token is minted
StopNoMint ==
    /\ token < MaxToken
    /\ active' = FALSE
    /\ data' = NoData
    /\ pos' = 0
    /\ finished' = TRUE
    /\ played' = IF active THEN [played EXCEPT !.how = "stopped"] ELSE played
    /\ UNCHANGED << token, samplerate, channels, stream >>

\* a faulty stop for C21: the finished signal is left as it is
StopUnsignalled ==
    /\ token < MaxToken
    /\ token' = token + 1
    /\ active' = FALSE
    /\ data' = NoData
    /\ pos' = 0
    /\ played' = IF active THEN [played EXCEPT !.how = "stopped"] ELSE played
    /\ UNCHANGED << finished, samplerate, channels, stream >>

\* a faulty stop for C30: the output stream is closed
StopClosesStream ==
    /\ token < MaxToken
    /\ token' = token + 1
    /\ active' = FALSE
    /\ data' = NoData
    /\ pos' = 0
    /\ finished' = TRUE
    /\ stream' = NoStream
    /\ played' = IF active THEN [played EXCEPT !.how = "stopped"] ELSE played
    /\ UNCHANGED << samplerate, channels >>

\* a faulty stop for C33: the position is left where it was
StopKeepsPosition ==
    /\ token < MaxToken
    /\ token' = token + 1
    /\ active' = FALSE
    /\ data' = NoData
    /\ finished' = TRUE
    /\ played' = IF active THEN [played EXCEPT !.how = "stopped"] ELSE played
    /\ UNCHANGED << pos, samplerate, channels, stream >>

\* stop, lines 147-153
StopPlayer ==
    /\ token < MaxToken
    /\ token' = token + 1
    /\ active' = FALSE
    /\ data' = NoData
    /\ pos' = 0
    /\ finished' = TRUE
    /\ played' = IF active THEN [played EXCEPT !.how = "stopped"] ELSE played
    /\ UNCHANGED << samplerate, channels, stream >>

\* _ensure_stream, lines 40-53
NeedNew ==
    \/ ~stream.open
    \/ stream.samplerate # samplerate
    \/ stream.channels # channels

\* lines 119-126: sd.OutputStream was built and start() raised; _stream holds
\* a stream that does not run
Unstarted ==
    [open |-> TRUE, running |-> FALSE, samplerate |-> samplerate,
     channels |-> channels]

\* _ensure_stream(self._samplerate, self._channels), line 145: opened tells
\* whether sd.OutputStream and start succeed when a new stream is needed; when
\* not, either sd.OutputStream raised and there is no stream, or start raised.
\* Closing the old stream waits for a callback invocation in flight.
EnsureStream(opened) ==
    /\ IF ~NeedNew
       THEN opened /\ UNCHANGED stream
       ELSE /\ stream.open => cpc = "idle"
            /\ IF opened
               THEN stream' = [open |-> TRUE, running |-> TRUE,
                               samplerate |-> samplerate, channels |-> channels]
               ELSE stream' \in {NoStream, Unstarted}
    /\ UNCHANGED << token, active, data, pos, finished, samplerate, channels, played >>

\* is_playing, lines 155-157
is_playing == active

(***************************************************************************)
(* The audio callback: app/player.py, lines 67-117                         *)
(***************************************************************************)
Zeros == [i \in 1..BlockSize |-> Silence]

\* data[pos:pos + frames]
Chunk(d, from) ==
    LET n == IF d.frames - from >= BlockSize THEN BlockSize
             ELSE IF d.frames - from > 0 THEN d.frames - from
             ELSE 0
    IN  [i \in 1..n |-> [buf |-> d.buf, idx |-> from + i - 1]]

\* a faulty write for C23: nothing follows the last samples
Unpadded(chunk) == chunk

\* lines 94-95 and 106: the chunk, then zeros up to the end of the period
Padded(chunk) ==
    [i \in 1..BlockSize |-> IF i <= Len(chunk) THEN chunk[i] ELSE Silence]

\* a faulty cancel for C32: the finished signal is not set
CancelKeepsSignal ==
    /\ active' = FALSE
    /\ data' = NoData
    /\ pos' = 0
    /\ UNCHANGED finished
    /\ played' = IF active THEN [played EXCEPT !.how = "cancelled"] ELSE played

\* lines 85-88 and 114-117: the invocation finds a token other than its own
Cancel ==
    /\ active' = FALSE
    /\ data' = NoData
    /\ pos' = 0
    /\ finished' = TRUE
    /\ played' = IF active THEN [played EXCEPT !.how = "cancelled"] ELSE played

\* lines 68-77: snapshot under the lock; silence when idle
CbSnapshot ==
    /\ stream.open
    /\ stream.running
    /\ cpc = "idle"
    /\ IF ~active \/ data = NoData
       THEN /\ out' = Zeros
            /\ cpc' = "idle"
            /\ snap' = NoSnap
       ELSE /\ out' = << >>
            /\ cpc' = "check"
            /\ snap' = [token |-> token, active |-> active, data |-> data, pos |-> pos]
    /\ NoReturn
    /\ UNCHANGED << mgrVars, workerVars, playerVars, prodVars, histVars >>

\* lines 79-95 and 106: the token check under the lock, then the write
CbCheck ==
    /\ cpc = "check"
    /\ IF snap.token # token
       THEN /\ Cancel
            /\ out' = Zeros
            /\ cpc' = "idle"
            /\ snap' = NoSnap
       ELSE /\ out' = Padded(Chunk(snap.data, snap.pos))
            /\ cpc' = IF Len(Chunk(snap.data, snap.pos)) < BlockSize
                      THEN "final" ELSE "advance"
            /\ UNCHANGED << active, data, pos, finished, played, snap >>
    /\ NoReturn
    /\ UNCHANGED << mgrVars, workerVars, token, samplerate, channels, stream,
                    prodVars, nextId, imark, results >>

\* a faulty callback for C19: the end of the buffer is not marked
CbFinalKeepsPlaying ==
    /\ cpc = "final"
    /\ cpc' = "idle"
    /\ snap' = NoSnap
    /\ NoReturn
    /\ UNCHANGED << mgrVars, workerVars, playerVars, out, prodVars, histVars >>

\* lines 97-104: the last chunk was written
CbFinal ==
    /\ cpc = "final"
    /\ IF snap.token = token
       THEN /\ active' = FALSE
            /\ data' = NoData
            /\ pos' = 0
            /\ finished' = TRUE
            /\ played' = [played EXCEPT !.how = "natural"]
       ELSE UNCHANGED << active, data, pos, finished, played >>
    /\ cpc' = "idle"
    /\ snap' = NoSnap
    /\ NoReturn
    /\ UNCHANGED << mgrVars, workerVars, token, samplerate, channels, stream, out,
                    prodVars, nextId, imark, results >>

\* a faulty callback for C31: the position is not advanced
CbAdvanceStays ==
    /\ cpc = "advance"
    /\ IF snap.token = token
       THEN UNCHANGED << pos, active, data, finished, played >>
       ELSE Cancel
    /\ cpc' = "idle"
    /\ snap' = NoSnap
    /\ NoReturn
    /\ UNCHANGED << mgrVars, workerVars, token, samplerate, channels, stream, out,
                    prodVars, nextId, imark, results >>

\* lines 108-117: a full chunk was written
CbAdvance ==
    /\ cpc = "advance"
    /\ IF snap.token = token
       THEN /\ pos' = snap.pos + BlockSize
            /\ UNCHANGED << active, data, finished, played >>
       ELSE Cancel
    /\ cpc' = "idle"
    /\ snap' = NoSnap
    /\ NoReturn
    /\ UNCHANGED << mgrVars, workerVars, token, samplerate, channels, stream, out,
                    prodVars, nextId, imark, results >>

Callback == CbSnapshot \/ CbCheck \/ CbFinal \/ CbAdvance

(***************************************************************************)
(* The worker thread: app/queue_manager.py, lines 53-58 and 131-163        *)
(***************************************************************************)
\* start, lines 53-58
Start ==
    /\ ~started
    /\ started' = TRUE
    /\ NoReturn
    /\ UNCHANGED << q, dedup_enabled, stop_flag, last_spoken_key, workerVars,
                    playerVars, cbVars, prodVars, histVars >>

\* a faulty dedup test for C5: no_dedup is not looked at
DedupSkipAll(item) == dedup_enabled /\ dedup_key(item) = last_spoken_key

\* a faulty dedup test for C38: dedup_enabled is not looked at
DedupSkipAlwaysOn(item) ==
    (~item.no_dedup) /\ dedup_key(item) = last_spoken_key

\* line 138
DedupSkip(item) ==
    (~item.no_dedup) /\ dedup_enabled /\ dedup_key(item) = last_spoken_key

\* a faulty get for C16: the item is read and left in the queue
WorkerGetPeeks ==
    /\ started
    /\ wpc = "get"
    /\ q # << >>
    /\ witem' = Head(q)
    /\ wpc' = IF DedupSkip(Head(q)) THEN "get" ELSE "synth"
    /\ NoReturn
    /\ UNCHANGED << mgrVars, wwav, playerVars, cbVars, prodVars, histVars >>

\* a faulty get for C28: the item queued last is taken
WorkerGetLast ==
    /\ started
    /\ wpc = "get"
    /\ q # << >>
    /\ q' = SubSeq(q, 1, Len(q) - 1)
    /\ witem' = q[Len(q)]
    /\ wpc' = IF DedupSkip(q[Len(q)]) THEN "get" ELSE "synth"
    /\ NoReturn
    /\ UNCHANGED << started, dedup_enabled, stop_flag, last_spoken_key, wwav,
                    playerVars, cbVars, prodVars, histVars >>

\* lines 134-140: the blocking get, and the dedup test
WorkerGet ==
    /\ started
    /\ wpc = "get"
    /\ q # << >>
    /\ q' = Tail(q)
    /\ witem' = Head(q)
    /\ wpc' = IF DedupSkip(Head(q)) THEN "get" ELSE "synth"
    /\ NoReturn
    /\ UNCHANGED << started, dedup_enabled, stop_flag, last_spoken_key, wwav,
                    playerVars, cbVars, prodVars, histVars >>

\* a faulty worker for C29: audio that arrives during an interrupt is dropped
WorkerSynthDropsOnStop ==
    /\ wpc = "synth"
    /\ \E wav \in Wavs : wwav' = wav
    /\ wpc' = IF stop_flag THEN "get" ELSE "play"
    /\ NoReturn
    /\ UNCHANGED << mgrVars, witem, playerVars, cbVars, prodVars, histVars >>

\* lines 143-147: the synthesis service answers with audio
WorkerSynthOk ==
    /\ wpc = "synth"
    /\ \E wav \in Wavs : wwav' = wav
    /\ wpc' = "play"
    /\ NoReturn
    /\ UNCHANGED << mgrVars, witem, playerVars, cbVars, prodVars, histVars >>

\* a faulty handler for C14: the item whose synthesis failed is queued again
WorkerSynthFailRequeue ==
    /\ wpc = "synth"
    /\ q' = Append(q, witem)
    /\ wpc' = "get"
    /\ NoReturn
    /\ UNCHANGED << started, dedup_enabled, stop_flag, last_spoken_key, witem, wwav,
                    playerVars, cbVars, prodVars, histVars >>

\* lines 143-147 raise, lines 162-163 catch: the item is dropped
WorkerSynthFail ==
    /\ wpc = "synth"
    /\ wpc' = "get"
    /\ NoReturn
    /\ UNCHANGED << mgrVars, witem, wwav, playerVars, cbVars, prodVars, histVars >>

\* line 150, player.play up to the end of its locked section
WorkerPlay ==
    /\ wpc = "play"
    /\ PlayInstall(wwav, witem.id)
    /\ wwav' = NoWav
    /\ wpc' = "ensure"
    /\ NoReturn
    /\ UNCHANGED << mgrVars, witem, cbVars, prodVars, nextId, imark, results >>

\* line 150, player.play from line 145 on: the stream is there or is opened
WorkerEnsureOk ==
    /\ wpc = "ensure"
    /\ EnsureStream(TRUE)
    /\ wpc' = "poll"
    /\ NoReturn
    /\ UNCHANGED << mgrVars, witem, wwav, cbVars, prodVars, nextId, imark, results >>

\* a faulty handler for C15: the failure of play ends the worker
WorkerEnsureFailEnds ==
    /\ wpc = "ensure"
    /\ NeedNew
    /\ EnsureStream(FALSE)
    /\ wpc' = "ended"
    /\ NoReturn
    /\ UNCHANGED << mgrVars, witem, wwav, cbVars, prodVars, nextId, imark, results >>

\* line 150 raises out of _ensure_stream, lines 162-163 catch
WorkerEnsureFail ==
    /\ wpc = "ensure"
    /\ NeedNew
    /\ EnsureStream(FALSE)
    /\ wpc' = "get"
    /\ NoReturn
    /\ UNCHANGED << mgrVars, witem, wwav, cbVars, prodVars, nextId, imark, results >>

\* line 153: while self.player.is_playing()
WorkerPoll ==
    /\ wpc = "poll"
    /\ wpc' = IF is_playing THEN "flag" ELSE "record"
    /\ NoReturn
    /\ UNCHANGED << mgrVars, witem, wwav, playerVars, cbVars, prodVars, histVars >>

\* lines 154-157: break when the stop flag is set, else sleep and poll again
WorkerFlag ==
    /\ wpc = "flag"
    /\ wpc' = IF stop_flag THEN "record" ELSE "poll"
    /\ NoReturn
    /\ UNCHANGED << mgrVars, witem, wwav, playerVars, cbVars, prodVars, histVars >>

\* lines 159-160
WorkerRecord ==
    /\ wpc = "record"
    /\ last_spoken_key' = IF ~stop_flag THEN dedup_key(witem) ELSE last_spoken_key
    /\ wpc' = "get"
    /\ NoReturn
    /\ UNCHANGED << q, started, dedup_enabled, stop_flag, witem, wwav, playerVars,
                    cbVars, prodVars, histVars >>

Worker ==
    \/ WorkerGet \/ WorkerSynthOk \/ WorkerSynthFail \/ WorkerPlay
    \/ WorkerEnsureOk \/ WorkerEnsureFail \/ WorkerPoll \/ WorkerFlag \/ WorkerRecord

(***************************************************************************)
(* The producer threads: app/queue_manager.py, lines 68-129                *)
(***************************************************************************)
\* the caller of the marked enqueue_interrupt begins another call
Unmark(p) == imark' = IF imark.by = p THEN NoMark ELSE imark

\* a faulty enqueue for C36: the last spoken key is forgotten
EnqueueResetsKey(p, a) ==
    /\ ppc[p] = "idle"
    /\ EnqueueBody(p, a, "enqueue")
    /\ Unmark(p)
    /\ last_spoken_key' = None
    /\ UNCHANGED << started, dedup_enabled, stop_flag, workerVars,
                    playerVars, cbVars, prodVars, played, results >>

\* enqueue, lines 68-104
Enqueue(p, a) ==
    /\ ppc[p] = "idle"
    /\ EnqueueBody(p, a, "enqueue")
    /\ Unmark(p)
    /\ UNCHANGED << started, dedup_enabled, stop_flag, last_spoken_key, workerVars,
                    playerVars, cbVars, prodVars, played, results >>

\* enqueue while the worker is not started, the results of at most cap calls
\* with a text to speak recorded
FillEnqueue(p, a, cap) ==
    /\ ~started
    /\ ppc[p] = "idle"
    /\ Rejected(a.text) \/ Len(results) < cap
    /\ EnqueueBody(p, a, "enqueue")
    /\ results' = IF Rejected(a.text) THEN results ELSE Append(results, ret'.ok)
    /\ UNCHANGED << started, dedup_enabled, stop_flag, last_spoken_key, workerVars,
                    playerVars, cbVars, prodVars, played, imark >>

\* stop_current, line 110: player.stop(), for the call op
StopCall(p, op) ==
    /\ ppc[p] = "idle"
    /\ StopPlayer
    /\ ppc' = [ppc EXCEPT ![p] = "stop_set"]
    /\ pop' = [pop EXCEPT ![p] = op]
    /\ imark' = IF op = "enqueue_interrupt" /\ active /\ wpc \in {"poll", "flag"}
                 THEN [by |-> p, cur |-> witem.id, id |-> nextId, ok |-> FALSE]
                 ELSE IF imark.by = p THEN NoMark ELSE imark
    /\ NoReturn
    /\ UNCHANGED << mgrVars, workerVars, cbVars, nextId, results >>

\* stop_current called by a producer
StopCurrent(p) == StopCall(p, "stop_current")

\* enqueue_interrupt, line 127, up to player.stop()
EnqueueInterrupt(p) == StopCall(p, "enqueue_interrupt")

\* a faulty stop_current for C18: each call takes an item off the queue
StopSetTakesItem(p) ==
    /\ ppc[p] = "stop_set"
    /\ stop_flag' = TRUE
    /\ q' = IF q # << >> THEN Tail(q) ELSE q
    /\ ppc' = [ppc EXCEPT ![p] = "stop_clear"]
    /\ NoReturn
    /\ UNCHANGED << started, dedup_enabled, last_spoken_key, workerVars, playerVars,
                    cbVars, pop, histVars >>

\* a faulty stop_current for C17: the last spoken key is forgotten
StopSetResetsKey(p) ==
    /\ ppc[p] = "stop_set"
    /\ stop_flag' = TRUE
    /\ last_spoken_key' = None
    /\ ppc' = [ppc EXCEPT ![p] = "stop_clear"]
    /\ NoReturn
    /\ UNCHANGED << q, started, dedup_enabled, workerVars, playerVars,
                    cbVars, pop, histVars >>

\* stop_current, line 111
StopSet(p) ==
    /\ ppc[p] = "stop_set"
    /\ stop_flag' = TRUE
    /\ ppc' = [ppc EXCEPT ![p] = "stop_clear"]
    /\ NoReturn
    /\ UNCHANGED << q, started, dedup_enabled, last_spoken_key, workerVars, playerVars,
                    cbVars, pop, histVars >>

\* stop_current, lines 113-114: the sleep is over, the flag is cleared
StopClear(p) ==
    /\ ppc[p] = "stop_clear"
    /\ stop_flag' = FALSE
    /\ IF pop[p] = "stop_current"
       THEN /\ ppc' = [ppc EXCEPT ![p] = "idle"]
            /\ pop' = [pop EXCEPT ![p] = "none"]
            /\ Returns(p, "stop_current", TRUE)
       ELSE /\ ppc' = [ppc EXCEPT ![p] = "clear"]
            /\ NoReturn
            /\ UNCHANGED pop
    /\ UNCHANGED << q, started, dedup_enabled, last_spoken_key, workerVars, playerVars,
                    cbVars, histVars >>

\* a faulty drain for C13: the call ends after one get_nowait
DrainOnce(p, op) ==
    /\ q' = IF q # << >> THEN Tail(q) ELSE q
    /\ IF op = "clear_queue"
       THEN /\ ppc' = [ppc EXCEPT ![p] = "idle"]
            /\ pop' = [pop EXCEPT ![p] = "none"]
            /\ Returns(p, "clear_queue", TRUE)
       ELSE /\ ppc' = [ppc EXCEPT ![p] = "enqueue"]
            /\ pop' = [pop EXCEPT ![p] = op]
            /\ NoReturn

\* a faulty drain for C34: the call ends without a get_nowait
DrainSkips(p, op) ==
    /\ UNCHANGED q
    /\ IF op = "clear_queue"
       THEN /\ ppc' = [ppc EXCEPT ![p] = "idle"]
            /\ pop' = [pop EXCEPT ![p] = "none"]
            /\ Returns(p, "clear_queue", TRUE)
       ELSE /\ ppc' = [ppc EXCEPT ![p] = "enqueue"]
            /\ pop' = [pop EXCEPT ![p] = op]
            /\ NoReturn

\* clear_queue, lines 117-121: one get_nowait of the call op; queue.Empty ends it
Drain(p, op) ==
    IF q # << >>
    THEN /\ q' = Tail(q)
         /\ ppc' = [ppc EXCEPT ![p] = "clear"]
         /\ pop' = [pop EXCEPT ![p] = op]
         /\ NoReturn
    ELSE /\ UNCHANGED q
         /\ IF op = "clear_queue"
            THEN /\ ppc' = [ppc EXCEPT ![p] = "idle"]
                 /\ pop' = [pop EXCEPT ![p] = "none"]
                 /\ Returns(p, "clear_queue", TRUE)
            ELSE /\ ppc' = [ppc EXCEPT ![p] = "enqueue"]
                 /\ pop' = [pop EXCEPT ![p] = op]
                 /\ NoReturn

\* clear_queue called by a producer, up to its first get_nowait
ClearQueue(p) ==
    /\ ppc[p] = "idle"
    /\ Drain(p, "clear_queue")
    /\ Unmark(p)
    /\ UNCHANGED << started, dedup_enabled, stop_flag, last_spoken_key, workerVars,
                    playerVars, cbVars, nextId, played, results >>

\* the next get_nowait of clear_queue, called directly or by enqueue_interrupt
ClearStep(p) ==
    /\ ppc[p] = "clear"
    /\ Drain(p, pop[p])
    /\ UNCHANGED << started, dedup_enabled, stop_flag, last_spoken_key, workerVars,
                    playerVars, cbVars, histVars >>

\* enqueue_interrupt, line 129: the enqueue of the new item
InterruptEnqueue(p, a) ==
    /\ ppc[p] = "enqueue"
    /\ EnqueueBody(p, a, "enqueue_interrupt")
    /\ ppc' = [ppc EXCEPT ![p] = "idle"]
    /\ pop' = [pop EXCEPT ![p] = "none"]
    /\ imark' = IF imark.by # p THEN imark
                 ELSE IF ret'.ok THEN [imark EXCEPT !.ok = TRUE]
                 ELSE NoMark
    /\ UNCHANGED << started, dedup_enabled, stop_flag, last_spoken_key, workerVars,
                    playerVars, cbVars, played, results >>

Producer(p) ==
    \/ \E a \in SpeakArgs : Enqueue(p, a)
    \/ StopCurrent(p) \/ StopSet(p) \/ StopClear(p)
    \/ ClearQueue(p) \/ ClearStep(p)
    \/ EnqueueInterrupt(p)
    \/ \E a \in SpeakArgs : InterruptEnqueue(p, a)

(***************************************************************************)
(* Specifications                                                          *)
(***************************************************************************)
\* the first producer thread makes every call, the second one only speaks
Next ==
    \/ Start
    \/ Worker
    \/ Callback
    \/ Producer("p1")
    \/ \E a \in OtherArgs : Enqueue("p2", a)

\* the running system: producers, the worker and the audio callback
Spec == Init /\ [][Next]_vars

NextEnqueue ==
    \E p \in Producers : \E a \in FillArgs : FillEnqueue(p, a, MaxQueueSize + 1)

\* enqueue calls alone, the worker not started
SpecEnqueue == Init /\ [][NextEnqueue]_vars

\* queues that enqueue calls have filled before
RECURSIVE QueuesOfLen(_)
QueuesOfLen(n) ==
    IF n = 0 THEN {<< >>}
    ELSE {Append(qq, MakeItem(a, n)) :
            qq \in QueuesOfLen(n - 1),
            a \in {x \in SpeakArgs \cup OtherArgs : ~Rejected(x.text)}}

InitText ==
    /\ InitRest
    /\ \E n \in 0..MaxQueueSize :
          /\ q \in QueuesOfLen(n)
          /\ nextId = n + 1

NextText == \E a \in TextArgs : FillEnqueue("p1", a, 1)

\* one enqueue call with any text, on a queue that earlier calls have filled
SpecText == InitText /\ [][NextText]_vars

\* play called by a client of the player, lines 129-143
ClientPlay(p, wav) ==
    /\ ppc[p] = "idle"
    /\ PlayInstall(wav, 0)
    /\ ppc' = [ppc EXCEPT ![p] = "ensure"]
    /\ pop' = [pop EXCEPT ![p] = "play"]
    /\ NoReturn
    /\ UNCHANGED << mgrVars, workerVars, cbVars, nextId, imark, results >>

\* play, line 145: the stream is there or is opened, and play returns
ClientEnsureOk(p) ==
    /\ ppc[p] = "ensure"
    /\ EnsureStream(TRUE)
    /\ ppc' = [ppc EXCEPT ![p] = "idle"]
    /\ pop' = [pop EXCEPT ![p] = "none"]
    /\ Returns(p, "play", TRUE)
    /\ UNCHANGED << mgrVars, workerVars, cbVars, nextId, imark, results >>

\* play, line 145: opening the stream raises, and so does play
ClientEnsureFail(p) ==
    /\ ppc[p] = "ensure"
    /\ NeedNew
    /\ EnsureStream(FALSE)
    /\ ppc' = [ppc EXCEPT ![p] = "idle"]
    /\ pop' = [pop EXCEPT ![p] = "none"]
    /\ Returns(p, "play", FALSE)
    /\ UNCHANGED << mgrVars, workerVars, cbVars, nextId, imark, results >>

\* stop called by a client of the player, lines 147-153
ClientStop(p) ==
    /\ ppc[p] = "idle"
    /\ StopPlayer
    /\ Returns(p, "stop", TRUE)
    /\ UNCHANGED << mgrVars, workerVars, cbVars, prodVars, nextId, imark, results >>

NextPlayer ==
    \/ \E p \in Producers :
          \/ \E wav \in Wavs : ClientPlay(p, wav)
          \/ ClientEnsureOk(p)
          \/ ClientEnsureFail(p)
          \/ ClientStop(p)
    \/ Callback

\* the player alone: threads that call play and stop, and the audio callback
SpecPlayer == Init /\ [][NextPlayer]_vars

\* play_and_wait, line 163, play up to the end of its locked section
ClientPlayAndWait(p, wav) ==
    /\ ppc[p] = "idle"
    /\ PlayInstall(wav, 0)
    /\ ppc' = [ppc EXCEPT ![p] = "ensure"]
    /\ pop' = [pop EXCEPT ![p] = "play_and_wait"]
    /\ NoReturn
    /\ UNCHANGED << mgrVars, workerVars, cbVars, nextId, imark, results >>

\* play_and_wait, line 163: play returns, the wait of line 164 begins
ClientEnsureThenWait(p) ==
    /\ ppc[p] = "ensure"
    /\ pop[p] = "play_and_wait"
    /\ EnsureStream(TRUE)
    /\ ppc' = [ppc EXCEPT ![p] = "wait"]
    /\ NoReturn
    /\ UNCHANGED << mgrVars, workerVars, cbVars, pop, nextId, imark, results >>

\* a faulty wait for C22: the wait of play_and_wait does not look at the signal
ClientWaitReturnsEarly(p) ==
    /\ ppc[p] = "wait"
    /\ ppc' = [ppc EXCEPT ![p] = "idle"]
    /\ pop' = [pop EXCEPT ![p] = "none"]
    /\ Returns(p, pop[p], TRUE)
    /\ UNCHANGED << mgrVars, workerVars, playerVars, cbVars, histVars >>

\* play_and_wait, line 164: the finished signal is set, wait() returns
ClientWaitReturn(p) ==
    /\ ppc[p] = "wait"
    /\ finished
    /\ ppc' = [ppc EXCEPT ![p] = "idle"]
    /\ pop' = [pop EXCEPT ![p] = "none"]
    /\ Returns(p, pop[p], TRUE)
    /\ UNCHANGED << mgrVars, workerVars, playerVars, cbVars, histVars >>

\* wait(), lines 159-160, without timeout: blocked until the signal is set
ClientWait(p) ==
    /\ ppc[p] = "idle"
    /\ finished
    /\ Returns(p, "wait", TRUE)
    /\ UNCHANGED << mgrVars, workerVars, playerVars, cbVars, prodVars, histVars >>

\* wait(timeout), lines 159-160, the signal not set and the timeout elapsed
ClientWaitTimeout(p) ==
    /\ ppc[p] = "idle"
    /\ ~finished
    /\ Returns(p, "wait", FALSE)
    /\ UNCHANGED << mgrVars, workerVars, playerVars, cbVars, prodVars, histVars >>

\* close, line 167: stop()
ClientClose(p) ==
    /\ ppc[p] = "idle"
    /\ StopPlayer
    /\ ppc' = [ppc EXCEPT ![p] = "teardown"]
    /\ pop' = [pop EXCEPT ![p] = "close"]
    /\ NoReturn
    /\ UNCHANGED << mgrVars, workerVars, cbVars, nextId, imark, results >>

\* a faulty close for C25: the stream is left as it is
ClientTeardownKeepsStream(p) ==
    /\ ppc[p] = "teardown"
    /\ ppc' = [ppc EXCEPT ![p] = "idle"]
    /\ pop' = [pop EXCEPT ![p] = "none"]
    /\ Returns(p, "close", TRUE)
    /\ UNCHANGED << mgrVars, workerVars, playerVars, cbVars, histVars >>

\* close, lines 168-177: the stream, if there is one, is aborted and closed,
\* which waits for a callback invocation in flight
ClientTeardown(p) ==
    /\ ppc[p] = "teardown"
    /\ stream.open => cpc = "idle"
    /\ stream' = NoStream
    /\ ppc' = [ppc EXCEPT ![p] = "idle"]
    /\ pop' = [pop EXCEPT ![p] = "none"]
    /\ Returns(p, "close", TRUE)
    /\ UNCHANGED << mgrVars, workerVars, token, active, data, pos, finished,
                    samplerate, channels, cbVars, histVars >>

NextEngine ==
    \/ \E p \in Producers :
          \/ \E wav \in EngineWavs : ClientPlay(p, wav)
          \/ pop[p] = "play" /\ ClientEnsureOk(p)
          \/ ClientEnsureFail(p)
          \/ ClientStop(p)
          \/ \E wav \in EngineWavs : ClientPlayAndWait(p, wav)
          \/ ClientEnsureThenWait(p)
          \/ ClientWaitReturn(p)
          \/ ClientWait(p)
          \/ ClientWaitTimeout(p)
          \/ ClientClose(p)
          \/ ClientTeardown(p)
    \/ Callback

\* the player with all its methods: threads that call play, stop, wait,
\* play_and_wait and close, and the audio callback
SpecEngine == Init /\ [][NextEngine]_vars

\* the first producer is in no call
Alone == ppc["p1"] = "idle"

NextSerial ==
    \/ Alone /\ Start
    \/ Alone /\ Worker
    \/ Alone /\ Callback
    \/ Alone /\ \E a \in OtherArgs : Enqueue("p2", a)
    \/ Producer("p1")

\* the calls of the first producer one after the other: no other thread takes
\* a step between the beginning of a call and its return
SpecSerial == Init /\ [][NextSerial]_vars

\* the worker when the synthesis service and the audio device work
WorkerLive ==
    \/ WorkerGet \/ WorkerSynthOk \/ WorkerPlay \/ WorkerEnsureOk
    \/ WorkerPoll \/ WorkerFlag \/ WorkerRecord

NextLive ==
    \/ Start
    \/ WorkerLive
    \/ Callback
    \/ \E a \in LiveArgs : Enqueue("p1", a)

\* runs without failure and without interrupt, the worker thread scheduled
\* again and again and the running stream calling the callback again and again
SpecLive == Init /\ [][NextLive]_vars /\ WF_vars(WorkerLive) /\ WF_vars(Callback)

NextKey ==
    \/ Start
    \/ WorkerLive
    \/ Callback

\* the worker speaks two queued SpeakItems of any content, one after the other
SpecKey == InitKey /\ [][NextKey]_vars

NextNoDedup ==
    \/ Start
    \/ Worker
    \/ Callback
    \/ \E a \in SpeakArgs : Enqueue("p1", a)

\* a manager built with dedup_enabled=False: one producer speaks, the worker
\* and the callback run
SpecNoDedup == InitNoDedup /\ [][NextNoDedup]_vars

\* what the producer says in the fair runs
FairArgs == Args({<< "a" >>}, {"default"}, {None}, {None}, BOOLEAN)

\* the calls of play() that the items accepted and to come can still make
PlaysToCome ==
    (MaxItems + 1 - nextId) + Len(q) + (IF wpc \in {"synth", "play"} THEN 1 ELSE 0)

\* a stop is called only while a token is left for every play() to come
TokenToSpare == token + PlaysToCome < MaxToken

NextFair ==
    \/ Start
    \/ Worker
    \/ Callback
    \/ \E a \in FairArgs : Enqueue("p1", a)
    \/ TokenToSpare /\ StopCurrent("p1")
    \/ TokenToSpare /\ EnqueueInterrupt("p1")
    \/ StopSet("p1")
    \/ StopClear("p1")
    \/ ClearQueue("p1")
    \/ ClearStep("p1")
    \/ \E a \in FairArgs : InterruptEnqueue("p1", a)

\* every call of the manager, synthesis and play failures included; the
\* worker thread is started and scheduled again and again, every synthesis
\* call returns or raises, and the running stream calls the callback again
\* and again
SpecFair ==
    Init /\ [][NextFair]_vars /\ WF_vars(Start) /\ WF_vars(Worker) /\ WF_vars(Callback)

(***************************************************************************)
(* Properties                                                              *)
(***************************************************************************)
\* str.strip() of the text is empty
Blank(text) == \A i \in 1..Len(text) : text[i] \in Whitespace

\* C1: an enqueue call whose text is empty, whitespace-only, or empty after
\* preprocessing returns false and leaves the queue as it was.
C1_RejectedTextLeavesQueue ==
    [][\A a \in TextArgs :
          (/\ FillEnqueue("p1", a, 1)
           /\ (a.text = << >> \/ Blank(a.text) \/ preprocess(a.text) = << >>))
          => (ret' = [by |-> "p1", op |-> "enqueue", ok |-> FALSE] /\ q' = q)]_vars

\* C1 happened: a call returned false though the queue had room, and the
\* item that was pending is still there
C1_Witness ==
    /\ ret = [by |-> "p1", op |-> "enqueue", ok |-> FALSE]
    /\ Len(q) = 1
    /\ results = << >>

\* C2: with the worker not started and max_queue_size = N, the first N enqueue
\* calls with a text to speak return true, the next one returns false, is not
\* made to wait, and the queue holds N items.
C2_FillToCapacity ==
    /\ \A i \in 1..Len(results) : results[i] = (i <= MaxQueueSize)
    /\ Len(q) = IF Len(results) <= MaxQueueSize THEN Len(results) ELSE MaxQueueSize
    /\ Len(results) <= MaxQueueSize => ENABLED NextEnqueue

\* C2 happened: the call after the N-th returned false, N items pending
C2_Witness ==
    /\ Len(results) = MaxQueueSize + 1
    /\ results[MaxQueueSize + 1] = FALSE
    /\ ret.ok = FALSE
    /\ Len(q) = MaxQueueSize

\* C3: whatever the interleaving of enqueue, enqueue_interrupt, clear_queue and
\* the worker's dequeues, at most max_queue_size items are pending, and an
\* enqueue that finds the queue full is not made to wait: it returns false.
C3_NeverOverCapacity ==
    /\ [](Len(q) <= MaxQueueSize)
    /\ [](Len(q) >= MaxQueueSize => \A a \in OtherArgs : ENABLED Enqueue("p2", a))
    /\ [][\A p \in Producers : \A a \in SpeakArgs \cup OtherArgs :
            (Len(q) >= MaxQueueSize /\ (Enqueue(p, a) \/ InterruptEnqueue(p, a)))
            => (ret'.by = p /\ ret'.ok = FALSE /\ q' = q)]_vars

\* C3 happened: the second producer, whose text is never turned away, was
\* refused on a full queue while the worker was busy with an item
C3_Witness ==
    /\ ret = [by |-> "p2", op |-> "enqueue", ok |-> FALSE]
    /\ Len(q) = MaxQueueSize
    /\ wpc = "poll"

\* the worker has asked for the synthesis of its item, or is past that
Synthesizing == wpc \in {"synth", "play", "ensure", "poll", "flag", "record"}

\* C4: when the item dequeued has the dedup key of the item dequeued before it,
\* has no_dedup = false, and that earlier item was played to its end without
\* interruption, the worker skips it: no synthesis, no play, the last spoken
\* key stays, and the worker goes back to the queue.
C4_RepeatSkipped ==
    [][(/\ WorkerGet
        /\ witem # NoItem
        /\ played = [id |-> witem.id, how |-> "natural"]
        /\ dedup_key(Head(q)) = dedup_key(witem)
        /\ ~Head(q).no_dedup)
       => (/\ wpc' = "get"
           /\ last_spoken_key' = last_spoken_key
           /\ played' = played)]_vars

\* C5 as stated: an item with no_dedup = true, once dequeued, is synthesized
\* and handed to play, whatever the last spoken key.
C5_AlwaysPlayed ==
    [][(witem.no_dedup /\ wpc = "synth" /\ wpc' # "synth") => wpc' = "play"]_vars

\* C5, amended: an item with no_dedup = true is never skipped, even when its
\* dedup key is the last spoken key: its synthesis is always requested, and
\* when the synthesis succeeds its audio is handed to play.
C5_OverrideNeverSkipped ==
    [][/\ (WorkerGet /\ Head(q).no_dedup) => (wpc' = "synth" /\ witem' = Head(q))
       /\ (WorkerSynthOk /\ witem.no_dedup) => wpc' = "play"
       /\ (WorkerPlay /\ witem.no_dedup)
          => (/\ played' = [id |-> witem.id, how |-> "playing"]
              /\ active'
              /\ data'.frames = wwav.frames)]_vars

\* C5 happened: the audio of a no_dedup item whose key is the last spoken key
\* was handed to play
C5_Witness ==
    /\ witem.no_dedup
    /\ dedup_key(witem) = last_spoken_key
    /\ wpc = "ensure"
    /\ played = [id |-> witem.id, how |-> "playing"]

\* C6: the last spoken key becomes an item's key only when the playback of that
\* item ran to its natural end; a playback ended by player.stop() leaves the
\* key as it was, whenever the worker polls.
C6_KeyOnlyAfterNaturalEnd ==
    [][last_spoken_key' # last_spoken_key
       => (/\ last_spoken_key' = dedup_key(witem)
           /\ played = [id |-> witem.id, how |-> "natural"])]_vars

\* C7: after an enqueue_interrupt that began while an item was in playback and
\* that returned true, no item that was pending when the call began is
\* synthesized or played.
C7_PendingNeverPlayed ==
    imark.ok =>
        /\ ~(Synthesizing /\ imark.cur < witem.id /\ witem.id < imark.id)
        /\ ~(imark.cur < played.id /\ played.id < imark.id)

\* C8: enqueue_interrupt takes effect as one step: when its enqueue succeeds,
\* no item of another producer is in the queue ahead of the new item.
C8_InterruptAtomic ==
    [][\A a \in SpeakArgs :
          (InterruptEnqueue("p1", a) /\ ret'.ok) => Len(q') = 1]_vars

\* the non-silent samples of a callback period
Samples(o) == {o[i].buf : i \in 1..Len(o)} \ {0}

\* C9: a callback invocation takes its buffer and its token together, at its
\* start, and emits samples of that buffer alone: one that starts after stop()
\* or a newer play() minted a token emits no sample of an earlier buffer, and
\* only the invocation in flight, one at a time, can still write old samples.
C9_OnlyBufferOfStartToken ==
    /\ [](cpc # "idle" => /\ snap.token <= token
                          /\ snap.active
                          /\ snap.data.buf = snap.token)
    /\ [][/\ cpc = "idle" => (Samples(out') = {} \/ out' = out)
          /\ cpc = "check" => Samples(out') \subseteq {snap.token}
          /\ cpc \in {"final", "advance"} => out' = out]_vars

\* C9 happened: a newer play() minted a token and installed its buffer while an
\* invocation that wrote samples of the earlier buffer is in flight
C9_Witness ==
    /\ cpc \in {"final", "advance"}
    /\ Samples(out) = {snap.token}
    /\ snap.token < token
    /\ active
    /\ data.buf = token

\* C10: the token never decreases; play and stop each add one to it; the
\* callback leaves it alone; the buffer in playback is that of the highest
\* token minted.
C10_TokenMonotone ==
    /\ [](active /\ data # NoData => data.buf = token)
    /\ [][/\ token' >= token
          /\ \A p \in Producers :
                /\ ((\E wav \in Wavs : ClientPlay(p, wav)) \/ ClientStop(p))
                   => token' = token + 1
                /\ (ClientEnsureOk(p) \/ ClientEnsureFail(p)) => token' = token
          /\ Callback => token' = token]_vars

\* C10 happened: play and stop minted tokens while the callback ran, and the
\* buffer in playback carries the latest
C10_Witness ==
    /\ token = 3
    /\ active
    /\ data.buf = 3
    /\ played.how = "playing"
    /\ out # << >>
    /\ cpc = "idle"

\* C11: at most one buffer is active: whenever active is true, the buffer
\* installed is the one of the latest play(), and no stop() came after it.
C11_ActiveIsLatestPlay ==
    /\ [](active => /\ data # NoData
                    /\ data.buf = token
                    /\ played.how = "playing")
    /\ [][/\ (active' /\ data' # data)
             => \E p \in Producers : \E wav \in Wavs :
                   ClientPlay(p, wav) /\ data' = [buf |-> token', frames |-> wav.frames]
          /\ (\E p \in Producers : ClientStop(p)) => ~active']_vars

\* C11 happened: a third call, a play(), replaced a buffer in playback while a
\* callback invocation on the earlier buffer was in flight
C11_Witness ==
    /\ active
    /\ token = 3
    /\ data.buf = 3
    /\ cpc = "check"
    /\ snap.token = 2

\* C12: a callback invocation whose snapshot token is older than the current
\* token changes nothing: active, buffer, position and the finished signal
\* stay as the newer play() installed them.
C12_StaleCallbackNoEffect ==
    [][(Callback /\ cpc # "idle" /\ snap.token < token /\ active /\ data.buf = token)
       => UNCHANGED << active, data, pos, finished >>]_vars

\* C20: play() installs token, buffer, position 0, active and the cleared
\* finished signal in one step, and a callback snapshot takes token, buffer and
\* position of one and the same installation.
C20_PlayInstallsAtomically ==
    /\ [](cpc # "idle" => /\ snap.data.buf = snap.token
                          /\ snap.pos <= snap.data.frames
                          /\ snap.pos % BlockSize = 0)
    /\ [](active /\ pos > 0 /\ cpc = "idle" => out[BlockSize] = [buf |-> token, idx |-> pos - 1])
    /\ [][/\ \A p \in Producers : \A wav \in Wavs :
                ClientPlay(p, wav)
                => /\ token' = token + 1
                   /\ data' = [buf |-> token', frames |-> wav.frames]
                   /\ pos' = 0
                   /\ active'
                   /\ ~finished'
          /\ (cpc = "idle" /\ cpc' = "check")
             => snap' = [token |-> token, active |-> active, data |-> data, pos |-> pos]]_vars

\* C20 happened: a snapshot taken after a play() that replaced an earlier
\* installation holds the new token with the new buffer at position 0
C20_Witness ==
    /\ cpc = "check"
    /\ snap.token = 2
    /\ snap.data.buf = 2
    /\ snap.pos = 0
    /\ token = 2
    /\ out = << >>

\* a step of a clear_queue call made by producer p
ClearQueueStep(p) == ClearQueue(p) \/ (pop[p] = "clear_queue" /\ ClearStep(p))

\* C13: clear_queue only removes items, leaves token, active, buffer, position,
\* finished signal and last spoken key as they are, and returns only at a
\* moment when the queue is empty, so that every item pending when it was
\* called is gone, whatever the other threads do meanwhile.
C13_ClearQueueDrains ==
    [][\A p \in Producers :
          ClearQueueStep(p)
          => /\ UNCHANGED << token, active, data, pos, finished, last_spoken_key >>
             /\ q' = IF q = << >> THEN q ELSE Tail(q)
             /\ IF ret'.op = "clear_queue"
                THEN q = << >> /\ q' = << >> /\ ppc'[p] = "idle"
                ELSE q # << >> /\ ppc'[p] = "clear"]_vars

\* C13 happened: clear_queue returned while the first item was in playback;
\* the second item, accepted and not taken by the worker, is gone
C13_Witness ==
    /\ ret = [by |-> "p1", op |-> "clear_queue", ok |-> TRUE]
    /\ q = << >>
    /\ nextId >= 3
    /\ witem.id = 1
    /\ wpc \in {"poll", "flag"}
    /\ active

\* the worker waiting at q.get() takes the next item as soon as there is one
WorkerGoesOn == (started /\ wpc = "get" /\ q # << >>) => ENABLED WorkerGet

\* C14: when the synthesis of an item fails, the item is dropped: it is not
\* queued again, play() is not called, the last spoken key stays, and the
\* worker is back at the queue for the next item.
C14_SynthFailureDropsItem ==
    /\ []WorkerGoesOn
    /\ [][WorkerSynthFail
          => /\ wpc' = "get"
             /\ q' = q
             /\ \A i \in 1..Len(q') : q'[i].id # witem.id
             /\ UNCHANGED << last_spoken_key, token, active, data, pos, finished, played >>]_vars

\* C14 happened: the first item, which no_dedup keeps from being skipped, was
\* dropped without a play(), and the worker is back at the queue where the
\* next item waits
C14_Witness ==
    /\ wpc = "get"
    /\ witem.id = 1
    /\ witem.no_dedup
    /\ played.id = 0
    /\ last_spoken_key = None
    /\ q # << >>

\* C15: when play() fails because the output stream cannot be opened, the
\* worker lives on: the last spoken key stays and the worker is back at the
\* queue for the next item.
C15_PlayFailureWorkerGoesOn ==
    /\ [](wpc \in {"get", "synth", "play", "ensure", "poll", "flag", "record"})
    /\ [](started /\ wpc = "get" /\ q # << >> => ENABLED Worker)
    /\ [][WorkerEnsureFail
          => /\ wpc' = "get"
             /\ started'
             /\ q' = q
             /\ last_spoken_key' = last_spoken_key]_vars

\* C15 happened: play() was called for the worker's item and failed with no
\* stream open; the worker is back at the queue where the next item waits
C15_Witness ==
    /\ wpc = "get"
    /\ played = [id |-> witem.id, how |-> "playing"]
    /\ witem.id > 0
    /\ ~stream.open
    /\ q # << >>

\* C16: an item leaves the queue at most once and is never put back: the queue
\* changes only by losing its head or by gaining a newly built item, the items
\* pending are all younger than the item the worker took last, and synthesis
\* starts only for an item just taken.
C16_NeverRequeued ==
    /\ [](\A i \in 1..Len(q) :
             /\ q[i].id < nextId
             /\ q[i].id > witem.id
             /\ \A j \in 1..Len(q) : i < j => q[i].id < q[j].id)
    /\ [][/\ q' # q
             => \/ q # << >> /\ q' = Tail(q)
                \/ /\ Len(q') = Len(q) + 1
                   /\ q' = Append(q, q'[Len(q')])
                   /\ q'[Len(q')].id = nextId
                   /\ nextId' = nextId + 1
          /\ (witem' # witem \/ (wpc' = "synth" /\ wpc # "synth"))
             => /\ q # << >>
                /\ witem' = Head(q)
                /\ q' = Tail(q)
                /\ witem'.id > witem.id]_vars

\* C16 happened: three items were accepted; the worker took and finished with
\* the first two, a drain removed the third, and nothing is pending
C16_Witness ==
    /\ nextId = 4
    /\ witem.id = 2
    /\ wpc = "get"
    /\ q = << >>
    /\ ppc["p1"] = "idle"
    /\ ret.op = "clear_queue"

\* a step of a stop_current call made by producer p
StopCurrentStep(p) ==
    StopCurrent(p) \/ (pop[p] = "stop_current" /\ (StopSet(p) \/ StopClear(p)))

\* C17: stop_current called while nothing is playing goes through to its
\* return, and none of its steps changes is_playing(), the pending queue or
\* the last spoken key.
C17_StopWhenIdle ==
    /\ [](\A p \in Producers :
             pop[p] = "stop_current" => ENABLED (StopSet(p) \/ StopClear(p)))
    /\ [][\A p \in Producers :
             (StopCurrentStep(p) /\ ~is_playing)
             => /\ ~active'
                /\ q' = q
                /\ last_spoken_key' = last_spoken_key
                /\ UNCHANGED << data, pos, finished, played >>]_vars

\* C17 happened: the first item was played to its end and its key recorded;
\* the one call that followed, a stop_current, has returned, with an item
\* still pending
C17_Witness ==
    /\ ret = [by |-> "p1", op |-> "stop_current", ok |-> TRUE]
    /\ played = [id |-> 1, how |-> "natural"]
    /\ token = 2
    /\ ~active
    /\ last_spoken_key # None
    /\ q # << >>

\* what a caller can observe of the manager
Observable == << is_playing, finished, q, stop_flag, last_spoken_key >>

\* C18: stop_current and clear_queue are idempotent. A call that runs alone
\* ends with nothing playing, the finished signal set and the stop flag clear
\* (stop_current), or with the queue empty (clear_queue); a second call begun
\* right after the return changes nothing observable, but for the stop flag,
\* which stop_current raises and lowers again before it returns.
C18_Idempotent ==
    /\ [](ret.op = "stop_current" => ~is_playing /\ finished /\ ~stop_flag)
    /\ [](ret.op = "clear_queue" => q = << >>)
    /\ [][/\ (ret.op = "stop_current" /\ StopCurrent("p1")) => Observable' = Observable
          /\ (pop["p1"] = "stop_current" /\ StopSet("p1"))
             => Observable' = << is_playing, finished, q, TRUE, last_spoken_key >>
          /\ (pop["p1"] = "stop_current" /\ StopClear("p1"))
             => /\ Observable' = << is_playing, finished, q, FALSE, last_spoken_key >>
                /\ ret'.op = "stop_current"
          /\ (ret.op = "clear_queue" /\ ClearQueue("p1"))
             => /\ Observable' = Observable
                /\ ret'.op = "clear_queue"]_vars

\* C18 happened: with items pending and the worker started, stop_current was
\* called and called again, the two calls minting the only two tokens, and
\* the second call has returned
C18_Witness ==
    /\ ret.op = "stop_current"
    /\ token = 2
    /\ played.id = 0
    /\ started
    /\ Len(q) = MaxQueueSize

\* the voice parameter k that enqueue resolves for the arguments a
ResolvedParam(a, k) ==
    IF k \in DictKeys(a.voice_params)
    THEN DictGet(a.voice_params, k)
    ELSE DictGet(CharacterData["default"].voice_params, k)

C21_StopLeavesIdle ==
    [][ /\ (\E p \in Producers : ClientStop(p)) =>
              /\ token' = token + 1
              /\ ~active'
              /\ data' = NoData
              /\ pos' = 0
              /\ finished'
              /\ stream' = stream
        /\ (~active /\ active') =>
              \E p \in Producers, wav \in EngineWavs :
                  ClientPlay(p, wav) \/ ClientPlayAndWait(p, wav)
        /\ (CbSnapshot /\ ~active) => (out' = Zeros /\ cpc' = "idle")
      ]_vars

\* a playback was stopped by the first stop(); the stream is open and the
\* last period written is silence
C21_Witness ==
    /\ token = 2
    /\ played.how = "stopped"
    /\ ~active
    /\ finished
    /\ stream.open
    /\ cpc = "idle"
    /\ out = Zeros

(***************************************************************************)
(* C23: every callback invocation writes the whole period before it        *)
(* returns: silence when it finds the player idle or its token replaced,   *)
(* otherwise the samples of its buffer from its position on, followed by   *)
(* zeros where the buffer ends before the period does.                     *)
(***************************************************************************)
C23_WholePeriodWritten ==
    [][ /\ (CbSnapshot /\ cpc' = "idle") => out' = Zeros
        /\ (CbCheck /\ snap.token # token) => out' = Zeros
        /\ (CbCheck /\ snap.token = token) =>
              /\ Len(out') = BlockSize
              /\ \A i \in 1..BlockSize :
                    out'[i] = IF snap.pos + i <= snap.data.frames
                              THEN [buf |-> snap.data.buf, idx |-> snap.pos + i - 1]
                              ELSE Silence
        /\ (CbFinal \/ CbAdvance) => (out' = out /\ Len(out) = BlockSize)
      ]_vars

\* a last chunk shorter than the period: a sample, then zeros
C23_Witness ==
    /\ cpc = "final"
    /\ Len(out) = BlockSize
    /\ out[1] # Silence
    /\ out[BlockSize] = Silence

C25_CloseTearsDown ==
    [][ \A p \in Producers :
          /\ ClientClose(p) =>
                /\ token' = token + 1
                /\ ~active'
                /\ data' = NoData
                /\ pos' = 0
                /\ finished'
                /\ stream' = stream
                /\ ppc'[p] = "teardown"
          /\ ClientTeardown(p) =>
                /\ ~stream'.open
                /\ ret' = [by |-> p, op |-> "close", ok |-> TRUE]
                /\ UNCHANGED << token, active, data, pos, finished >>
          /\ ((ClientEnsureOk(p) \/ ClientEnsureThenWait(p)) /\ ~stream.open) =>
                /\ stream' = [open |-> TRUE, running |-> TRUE,
                              samplerate |-> samplerate, channels |-> channels]
                /\ UNCHANGED << token, active, data, pos, finished >>
      ]_vars

\* close() has returned: it stopped the first buffer, of which samples had
\* been written to the stream, and no stream is open
C25_Witness ==
    /\ ret = [by |-> "p1", op |-> "close", ok |-> TRUE]
    /\ token = 2
    /\ played.how = "stopped"
    /\ ~active
    /\ finished
    /\ Samples(out) = {1}
    /\ ~stream.open

(***************************************************************************)
(* C30: the output stream changes only in the _ensure_stream of a play()   *)
(* that finds no stream open or one of another sample rate or channel      *)
(* count, and in the teardown of close(); play() with the same format,     *)
(* stop(), the end of a buffer and a cancelled playback leave it as it is. *)
(***************************************************************************)
C30_StreamReused ==
    [][ stream' # stream =>
          \E p \in Producers :
              \/ ClientTeardown(p)
              \/ /\ NeedNew
                 /\ \/ ClientEnsureOk(p)
                    \/ ClientEnsureThenWait(p)
                    \/ ClientEnsureFail(p)
      ]_vars

\* the second play() has returned while a callback invocation of the stream
\* opened by the first one is in flight: the stream was reused
C30_Witness ==
    /\ ret = [by |-> "p1", op |-> "play", ok |-> TRUE]
    /\ token = 2
    /\ cpc = "check"
    /\ snap.token = 1
    /\ stream.open

SameMapping(d, e) ==
    /\ DictKeys(d) = DictKeys(e)
    /\ \A k \in DictKeys(d) : DictGet(d, k) = DictGet(e, k)

SameUtterance(x, y) ==
    /\ x.text = y.text
    /\ x.style_id = y.style_id
    /\ SameMapping(x.voice_params, y.voice_params)

Pending == {q[i] : i \in 1..Len(q)} \cup ({witem} \ {NoItem})

C26_KeyIsTextStyleParams ==
    /\ [](\A x \in Pending, y \in Pending :
            (dedup_key(x) = dedup_key(y)) <=> SameUtterance(x, y))
    /\ [][ (WorkerGet /\ witem # NoItem /\ last_spoken_key = dedup_key(witem)) =>
              ((wpc' = "get") <=>
                  (~Head(q).no_dedup /\ SameUtterance(witem, Head(q))))
         ]_vars

\* the key of the first item was recorded; the second item differs from it
\* in the order of its voice_params entries, in name and in no_dedup, and has
\* that key
C26_Witness ==
    /\ wpc = "get"
    /\ witem.id = 1
    /\ played = [id |-> 1, how |-> "natural"]
    /\ last_spoken_key = dedup_key(witem)
    /\ Len(q) = 1
    /\ q[1].voice_params # witem.voice_params
    /\ q[1].name # witem.name
    /\ q[1].no_dedup # witem.no_dedup
    /\ dedup_key(q[1]) = last_spoken_key

(***************************************************************************)
(* C27: the worker takes the next item from the queue only when no         *)
(* playback is active on the open stream: at every dequeue is_playing() is *)
(* false.                                                                  *)
(***************************************************************************)
C27_DequeueOnlyWhenSilent ==
    [][ (WorkerGet /\ stream.open /\ stream.running) => ~is_playing ]_vars

(***************************************************************************)
(* C28: the queue is first in, first out: the items wait in the order in   *)
(* which their enqueue calls put them, the worker takes the oldest one,    *)
(* and there is one worker, which takes an item only when it has left the  *)
(* synthesis, play and wait of the item before.                            *)
(***************************************************************************)
C28_FifoSingleWorker ==
    /\ [](\A i \in 1..Len(q), j \in 1..Len(q) : i < j => q[i].id < q[j].id)
    /\ [](wpc # "get" => ~ENABLED WorkerGet)
    /\ [](started => ~ENABLED Start)
    /\ [][ WorkerGet =>
              /\ witem' = Head(q)
              /\ q' = Tail(q)
              /\ \A i \in 1..Len(q') : witem'.id < q'[i].id
         ]_vars

\* the first item was played to its end, the second one is in playback, the
\* third one waits
C28_Witness ==
    /\ wpc = "poll"
    /\ witem.id = 2
    /\ played = [id |-> 2, how |-> "playing"]
    /\ last_spoken_key # None
    /\ Len(q) = 1
    /\ q[1].id = 3

(***************************************************************************)
(* C29: an interrupt does not cancel a synthesis request: while the worker *)
(* is inside the synthesis call, no call of a producer takes the item from *)
(* it, and when the synthesis returns audio, that audio is handed to       *)
(* play() and becomes the active buffer, whether or not stop_current or    *)
(* enqueue_interrupt ran in between.                                       *)
(***************************************************************************)
C29_SynthesisSurvivesInterrupt ==
    [][ /\ (wpc = "synth" /\ ~WorkerSynthOk /\ ~WorkerSynthFail) =>
               UNCHANGED << wpc, witem >>
        /\ WorkerSynthOk => (wpc' = "play" /\ wwav' \in Wavs /\ witem' = witem)
        /\ WorkerPlay =>
               /\ is_playing'
               /\ token' = token + 1
               /\ data' = [buf |-> token', frames |-> wwav.frames]
               /\ played' = [id |-> witem.id, how |-> "playing"]
      ]_vars

\* stop_current has run its player.stop() and not yet set the stop flag; the
\* audio of the first item, synthesized meanwhile, is the active buffer
C29_Witness ==
    /\ wpc = "ensure"
    /\ witem.id = 1
    /\ token = 2
    /\ is_playing
    /\ played = [id |-> 1, how |-> "playing"]
    /\ ppc["p1"] = "stop_set"
    /\ pop["p1"] = "stop_current"

(***************************************************************************)
(* C31: while the token of a playback stays the current one, each callback *)
(* invocation starts at the position the one before has left, writes the   *)
(* frames of the buffer from there on in their order, and advances the     *)
(* position by a period; the playback stays active until an invocation     *)
(* gets fewer frames than a period, which writes them followed by silence, *)
(* then clears active and sets the finished signal.                        *)
(***************************************************************************)
C31_FramesInOrderOnce ==
    [][ /\ (CbSnapshot /\ active) =>
              (snap'.token = token /\ snap'.data = data /\ snap'.pos = pos)
        /\ (CbCheck /\ snap.token = token) =>
              /\ \A i \in 1..BlockSize :
                    out'[i] = IF snap.pos + i <= snap.data.frames
                              THEN [buf |-> snap.data.buf, idx |-> snap.pos + i - 1]
                              ELSE Silence
              /\ (cpc' = "final") <=> (snap.data.frames - snap.pos < BlockSize)
              /\ (cpc' = "advance") <=> (snap.data.frames - snap.pos >= BlockSize)
              /\ active'
        /\ (CbAdvance /\ snap.token = token) =>
              /\ pos' = snap.pos + BlockSize
              /\ pos' <= data.frames
              /\ data' = data
              /\ active'
              /\ ~finished'
        /\ (CbFinal /\ snap.token = token) =>
              /\ out[BlockSize] = Silence
              /\ \A i \in 1..BlockSize :
                    (out[i] # Silence) <=> (snap.pos + i <= snap.data.frames)
              /\ ~active'
              /\ finished'
        /\ (Callback /\ cpc # "idle" /\ snap.token = token /\ active /\ ~active')
              => CbFinal
      ]_vars

\* a buffer of a period and a frame was played to its end: the last
\* invocation wrote the last frame and silence
C31_Witness ==
    /\ cpc = "idle"
    /\ played.how = "natural"
    /\ ~active
    /\ finished
    /\ out[1] = [buf |-> token, idx |-> BlockSize]
    /\ out[BlockSize] = Silence

(***************************************************************************)
(* C32: in every state between two locked sections of the player the       *)
(* finished signal is set exactly when active is false.                    *)
(***************************************************************************)
C32_FinishedIffNotActive == finished = ~active

\* a callback invocation has cancelled: active is false, the signal is set
C32_Witness ==
    /\ played.how = "cancelled"
    /\ ~active
    /\ finished
    /\ cpc = "idle"

(***************************************************************************)
(* C33: in every state between two locked sections of the player, active   *)
(* is true exactly when a buffer is installed, the position is 0 when      *)
(* active is false, and while active the position lies between 0 and the   *)
(* number of frames of the installed buffer.                               *)
(***************************************************************************)
C33_PositionWithinBuffer ==
    /\ active <=> data # NoData
    /\ ~active => pos = 0
    /\ active => (pos >= 0 /\ pos <= data.frames)

\* a period of a longer buffer has been played
C33_Witness ==
    /\ active
    /\ cpc = "idle"
    /\ pos = BlockSize
    /\ data.frames = BlockSize + 1

(***************************************************************************)
(* C35: when no call of play() is under way, an active player has an open  *)
(* output stream: a play() that raised while opening the stream has not    *)
(* left the player active with the finished signal cleared.                *)
(***************************************************************************)
C35_ActiveHasStream ==
    ((\A p \in Producers : ppc[p] = "idle") /\ is_playing) => stream.open

(***************************************************************************)
(* C34: enqueue_interrupt stops the playback and drains the queue before   *)
(* it looks at its text: its player.stop() leaves the player idle under a  *)
(* new token, its enqueue begins only when a get_nowait has found the      *)
(* queue empty, and with a text that enqueue rejects it then returns false *)
(* and puts nothing.                                                       *)
(***************************************************************************)
C34_RejectedInterruptStillStops ==
    [][ /\ EnqueueInterrupt("p1") =>
              (~active' /\ data' = NoData /\ finished' /\ token' = token + 1)
        /\ (ppc["p1"] # "enqueue" /\ ppc'["p1"] = "enqueue") =>
              /\ pop["p1"] = "enqueue_interrupt"
              /\ ppc["p1"] = "clear"
              /\ q = << >>
              /\ q' = << >>
        /\ \A a \in SpeakArgs :
              (InterruptEnqueue("p1", a) /\ Rejected(a.text)) =>
                 /\ ret' = [by |-> "p1", op |-> "enqueue_interrupt", ok |-> FALSE]
                 /\ q' = q
                 /\ token > 0
      ]_vars

\* enqueue_interrupt has returned false; the first item was in playback and
\* was stopped, the second one was pending and is gone
C34_Witness ==
    /\ ret = [by |-> "p1", op |-> "enqueue_interrupt", ok |-> FALSE]
    /\ witem.id = 1
    /\ played = [id |-> 1, how |-> "stopped"]
    /\ ~active
    /\ nextId = 3
    /\ q = << >>

(***************************************************************************)
(* C36: enqueue, accepted or rejected, alone or at the end of              *)
(* enqueue_interrupt, leaves token, active, buffer, position, finished     *)
(* signal, stop flag and last spoken key as they are, and a rejected one   *)
(* leaves the queue too; no step of stop_current changes the queue; the    *)
(* last spoken key changes only in the worker's line 160.                  *)
(***************************************************************************)
C36_FrameOfEnqueueAndStop ==
    [][ /\ \A p \in Producers, a \in SpeakArgs \cup OtherArgs :
              (Enqueue(p, a) \/ InterruptEnqueue(p, a)) =>
                 /\ UNCHANGED << token, active, data, pos, finished, stop_flag,
                                 last_spoken_key >>
                 /\ Rejected(a.text) => q' = q
        /\ \A p \in Producers : StopCurrentStep(p) => q' = q
        /\ last_spoken_key' # last_spoken_key => WorkerRecord
      ]_vars

\* an enqueue was accepted during a playback, after another utterance was
\* played to its end
C36_Witness ==
    /\ ret.op = "enqueue"
    /\ ret.ok
    /\ active
    /\ last_spoken_key # None
    /\ Len(q) >= 1

(***************************************************************************)
(* C38: in a manager built with dedup_enabled=False the flag stays false   *)
(* and every item the worker takes from the queue goes on to synthesis,    *)
(* whatever the last spoken key and the item's no_dedup flag.              *)
(***************************************************************************)
C38_NoSkipWhenDisabled ==
    /\ [](~dedup_enabled)
    /\ [][ WorkerGet => (wpc' = "synth" /\ witem' = Head(q)) ]_vars

\* an item without no_dedup whose key is the last spoken key is in synthesis
C38_Witness ==
    /\ wpc = "synth"
    /\ ~witem.no_dedup
    /\ last_spoken_key = dedup_key(witem)

(***************************************************************************)
(* C37: with the worker and the callback scheduled fairly and every        *)
(* synthesis call returning or raising, the worker always leaves its       *)
(* completion poll again, at once when it finds the playback ended or the  *)
(* stop flag set, and every item in the queue eventually leaves the queue, *)
(* taken by the worker or removed by a drain.                              *)
(***************************************************************************)
InPoll == wpc \in {"poll", "flag"}

Queued(id) == \E i \in 1..Len(q) : q[i].id = id

C37_WorkerGoesOnItemsLeave ==
    /\ InPoll ~> ~InPoll
    /\ \A id \in 1..MaxItems : Queued(id) ~> ~Queued(id)
    /\ [][ ((WorkerPoll /\ ~is_playing) \/ (WorkerFlag /\ stop_flag))
              => wpc' = "record" ]_vars

=============================================================================
